---- MODULE Spec2Model ----
(***************************************************************************)
(* Model of moonraker/components/energymeter.py: the EnergyManager with    *)
(* its EnergyMeter objects, the sensor-update and job-state event          *)
(* handlers, and the /server/energy request handler.                       *)
(*                                                                         *)
(* Numbers.  Sensor readings and the meters' accumulators are floats in    *)
(* the source.  Here a quantity is an integer count of eighths (1 = 0.125):*)
(* eighths are exact binary fractions, so at the magnitudes explored every *)
(* float addition and subtraction of the source is exact and equals the    *)
(* integer operation.  A reported number is an integer count of hundredths *)
(* (the two decimals round(x, 2) keeps); Round2 converts between the two.  *)
(*                                                                         *)
(* Strings.  A string is a sequence of tokens, each token a run of         *)
(* characters free of the separators; "." and " " are tokens of their own. *)
(* "s1.power" is <<"s1", ".", "power">>.                                   *)
(***************************************************************************)
EXTENDS Integers, Sequences, FiniteSets, TLC

VARIABLES
    config,     \* the [energymeter ...] sections, in file order (read-only)
    meters,     \* EnergyManager.meters: name -> EnergyMeter
    warnings,   \* sections reported through server.add_warning, in order
    job_state,  \* EnergyManager.job_state
    result,     \* the response of the request handled last, while nothing
                \* was handled after it; NoResult otherwise
    job_event,  \* history: the name of the job_state event handled last
    observed,   \* history, per meter: what its two sensors delivered so far
    twin        \* a second run of the manager (its job_state and meters) that
                \* receives the same sensor updates; NoTwin where there is none

vars == <<config, meters, warnings, job_state, result, job_event,
          observed, twin>>

\* ------------------------------------------------------------- bounds

\* Largest value a consumption counter delivers, in eighths.
MaxReading == 2

\* Sensor updates are accepted while every accumulator stays within
\* -MaxConsumption .. MaxConsumption (eighths).
MaxConsumption == 2

\* ------------------------------------------------------------ strings

\* Python's None, for job_state.
None == "<None>"

\* Index of the first occurrence of token sep in s, 0 if there is none.
RECURSIVE find(_, _, _)
find(s, sep, i) ==
    IF i > Len(s) THEN 0
    ELSE IF s[i] = sep THEN i
    ELSE find(s, sep, i + 1)

\* str.split(sep, maxsplit=1): one part if sep does not occur, else the
\* text before the first sep and the text after it.
split(s, sep) ==
    LET i == find(s, sep, 1) IN
    IF i = 0 THEN <<s>>
    ELSE <<SubSeq(s, 1, i - 1), SubSeq(s, i + 1, Len(s))>>

\* ---------------------------------------------------------- SensorLink

\* What a constructor that raised leaves behind.
Raised == [raised |-> TRUE]

\* SensorLink.__init__: "self.sensor, self.field = sensor_path.split(...)".
\* Unpacking a one-element list into two names raises ValueError.
SensorLink(sensor_path) ==
    LET parts == split(sensor_path, ".") IN
    IF Len(parts) # 2 THEN Raised
    ELSE [raised |-> FALSE,
          self |-> [sensor |-> parts[1], field |-> parts[2]]]

\* --------------------------------------------------------- EnergyMeter

\* EnergyMeter.__init__.  The name is the text after the first blank of
\* the section name ([1] of a one-element list raises IndexError); then
\* the two sensor links are built, either of which may raise.
\* consumption_last is <<>> for None and <<v>> for the float v.
EnergyMeter(cfg) ==
    LET nameparts == split(cfg.section, " ")
        power_sensor == SensorLink(cfg.power_sensor)
        consumption_sensor == SensorLink(cfg.consumption_sensor)
    IN  IF Len(nameparts) < 2 THEN Raised
        ELSE IF power_sensor.raised THEN Raised
        ELSE IF consumption_sensor.raised THEN Raised
        ELSE [raised |-> FALSE,
              self |-> [name |-> nameparts[2],
                        power_sensor |-> power_sensor.self,
                        consumption_sensor |-> consumption_sensor.self,
                        power |-> 0,
                        consumption |-> 0,
                        consumption_last |-> <<>>,
                        consumption_current_job |-> 0]]

\* Mutant of update_power: the highest power delivered is kept.
update_power_peak(self, new_sensor_data) ==
    IF self.power_sensor.field \notin DOMAIN new_sensor_data THEN self
    ELSE IF new_sensor_data[self.power_sensor.field] <= self.power THEN self
    ELSE [self EXCEPT !.power = new_sensor_data[self.power_sensor.field]]

\* Mutant of update_power: a payload without the power field sets the
\* power to 0.
update_power_zero_when_missing(self, new_sensor_data) ==
    IF self.power_sensor.field \notin DOMAIN new_sensor_data
    THEN [self EXCEPT !.power = 0]
    ELSE [self EXCEPT !.power = new_sensor_data[self.power_sensor.field]]

\* EnergyMeter._update_power
update_power(self, new_sensor_data) ==
    IF self.power_sensor.field \notin DOMAIN new_sensor_data THEN self
    ELSE [self EXCEPT !.power = new_sensor_data[self.power_sensor.field]]

\* Mutant of increase: a lower value is not taken for a reset, the
\* difference is added whatever its sign.
increase_without_reset(consumption_last, current_consumption) ==
    IF consumption_last # <<>>
    THEN current_consumption - consumption_last[1]
    ELSE 0

\* Mutant of increase: a lower value adds nothing.
increase_ignoring_reset(consumption_last, current_consumption) ==
    IF consumption_last # <<>> THEN
        IF current_consumption >= consumption_last[1]
        THEN current_consumption - consumption_last[1]
        ELSE 0
    ELSE 0

\* Mutant of increase: a value not lower than the last one is added
\* whole, the last one is not subtracted.
increase_whole_counter(consumption_last, current_consumption) ==
    IF consumption_last # <<>> THEN current_consumption ELSE 0

\* Mutant of increase: the first value a meter observes counts in full.
increase_counting_first(consumption_last, current_consumption) ==
    IF consumption_last # <<>> THEN
        IF current_consumption >= consumption_last[1]
        THEN current_consumption - consumption_last[1]
        ELSE current_consumption
    ELSE current_consumption

\* Mutant of increase: a value equal to the one before it is taken for a
\* reset (> where the source has >=).
increase_strictly_greater(consumption_last, current_consumption) ==
    IF consumption_last # <<>> THEN
        IF current_consumption > consumption_last[1]
        THEN current_consumption - consumption_last[1]
        ELSE current_consumption
    ELSE 0

\* The increase _update_consumption computes from the value seen last
\* and the value delivered now.
increase(consumption_last, current_consumption) ==
    IF consumption_last # <<>> THEN
        IF current_consumption >= consumption_last[1]
        THEN current_consumption - consumption_last[1]   \* meter continued
        ELSE current_consumption           \* meter was reset or rolled over
    ELSE 0

\* Mutant of counts_for_job: every job state but idle and None counts.
counts_for_job_unless_idle(manager_job_state) ==
    manager_job_state # None /\ manager_job_state # "idle"

\* Whether _update_consumption adds the increase to the current job.
counts_for_job(manager_job_state) == manager_job_state = "printing"

\* Mutant of update_consumption: consumption_last is not stored on the
\* reset branch.
update_consumption_last_kept(self, new_sensor_data, manager_job_state) ==
    IF self.consumption_sensor.field \notin DOMAIN new_sensor_data THEN self
    ELSE
        LET current_consumption == new_sensor_data[self.consumption_sensor.field]
            inc == increase(self.consumption_last, current_consumption)
        IN  [self EXCEPT
                !.consumption = @ + inc,
                !.consumption_current_job =
                    IF counts_for_job(manager_job_state) THEN @ + inc ELSE @,
                !.consumption_last =
                    IF @ # <<>> /\ current_consumption < @[1]
                    THEN @ ELSE <<current_consumption>>]

\* Mutant of update_consumption: the current job gets the counter value
\* where the source adds the increase.
update_consumption_job_counter(self, new_sensor_data, manager_job_state) ==
    IF self.consumption_sensor.field \notin DOMAIN new_sensor_data THEN self
    ELSE
        LET current_consumption == new_sensor_data[self.consumption_sensor.field]
            inc == increase(self.consumption_last, current_consumption)
        IN  [self EXCEPT
                !.consumption = @ + inc,
                !.consumption_current_job =
                    IF counts_for_job(manager_job_state)
                    THEN @ + current_consumption ELSE @,
                !.consumption_last = <<current_consumption>>]

\* Mutant of update_consumption: nothing is added to the lifetime
\* consumption while the job state is idle.
update_consumption_unless_idle(self, new_sensor_data, manager_job_state) ==
    IF self.consumption_sensor.field \notin DOMAIN new_sensor_data THEN self
    ELSE
        LET current_consumption == new_sensor_data[self.consumption_sensor.field]
            inc == increase(self.consumption_last, current_consumption)
        IN  [self EXCEPT
                !.consumption =
                    IF manager_job_state = "idle" THEN @ ELSE @ + inc,
                !.consumption_current_job =
                    IF counts_for_job(manager_job_state) THEN @ + inc ELSE @,
                !.consumption_last = <<current_consumption>>]

\* EnergyMeter._update_consumption; manager_job_state is
\* self.manager.job_state at the time of the call.
update_consumption(self, new_sensor_data, manager_job_state) ==
    IF self.consumption_sensor.field \notin DOMAIN new_sensor_data THEN self
    ELSE
        LET current_consumption == new_sensor_data[self.consumption_sensor.field]
            inc == increase(self.consumption_last, current_consumption)
        IN  [self EXCEPT
                !.consumption = @ + inc,
                !.consumption_current_job =
                    IF counts_for_job(manager_job_state) THEN @ + inc ELSE @,
                !.consumption_last = <<current_consumption>>]

\* Mutant of handle_sensor_update: the handler stops after the power,
\* as a handler suspended between its two calls would appear.
handle_sensor_update_power_only(self, sensor_data, manager_job_state) ==
    IF self.power_sensor.sensor \in DOMAIN sensor_data
    THEN update_power(self, sensor_data[self.power_sensor.sensor])
    ELSE self

\* EnergyMeter._handle_sensor_update: one synchronous call, power first,
\* then consumption.
handle_sensor_update(self, sensor_data, manager_job_state) ==
    LET after_power ==
            IF self.power_sensor.sensor \in DOMAIN sensor_data
            THEN update_power(self, sensor_data[self.power_sensor.sensor])
            ELSE self
    IN  IF self.consumption_sensor.sensor \in DOMAIN sensor_data
        THEN update_consumption(after_power,
                                sensor_data[self.consumption_sensor.sensor],
                                manager_job_state)
        ELSE after_power

\* ------------------------------------------------------- EnergyManager

\* Mutant of load_meters: the first meter that raises ends the loop.
RECURSIVE load_meters_until_raise(_, _, _)
load_meters_until_raise(cfg, i, acc) ==
    IF i > Len(cfg) THEN acc
    ELSE
        LET meter == EnergyMeter(cfg[i]) IN
        IF meter.raised
        THEN [acc EXCEPT !.warnings = Append(@, cfg[i].section)]
        ELSE load_meters_until_raise(cfg, i + 1,
                 [acc EXCEPT !.meters =
                     (meter.self.name :> meter.self) @@ @])

\* The loop of EnergyManager.__init__ over the sections from the i-th on:
\* a meter that raised is reported and skipped, any other is stored under
\* its name, replacing a meter stored there before.
RECURSIVE load_meters(_, _, _)
load_meters(cfg, i, acc) ==
    IF i > Len(cfg) THEN acc
    ELSE
        LET meter == EnergyMeter(cfg[i]) IN
        IF meter.raised
        THEN load_meters(cfg, i + 1,
                 [acc EXCEPT !.warnings = Append(@, cfg[i].section)])
        ELSE load_meters(cfg, i + 1,
                 [acc EXCEPT !.meters =
                     (meter.self.name :> meter.self) @@ @])

\* EnergyManager.__init__
EnergyManager(cfg) ==
    load_meters(cfg, 1, [meters |-> <<>>, warnings |-> <<>>])

\* sum() of the values of f, a function from meter names to numbers.
RECURSIVE sum(_)
sum(f) ==
    IF DOMAIN f = {} THEN 0
    ELSE LET n == CHOOSE x \in DOMAIN f : TRUE
         IN  f[n] + sum([x \in DOMAIN f \ {n} |-> f[x]])

get_power(self) == self.power
get_consumption(self) == self.consumption
get_consumption_current_job(self) == self.consumption_current_job

\* The three totals.  Each skips the meters whose value is None; no
\* assignment of the source stores None in these three fields.
get_total_power(ms) == sum([n \in DOMAIN ms |-> get_power(ms[n])])
get_total_consumption(ms) ==
    sum([n \in DOMAIN ms |-> get_consumption(ms[n])])
get_total_consumption_current_job(ms) ==
    sum([n \in DOMAIN ms |-> get_consumption_current_job(ms[n])])

\* round(x, 2) of x = k/8: the nearest count of hundredths to 12.5 * k,
\* a tie going to the even count (k/8 is an exact float, so the tie is
\* a real one and Python rounds it half to even).
Round2(k) ==
    LET n == 25 * k IN
    IF n % 2 = 0 THEN n \div 2
    ELSE LET lo == (n - 1) \div 2 IN
         IF lo % 2 = 0 THEN lo ELSE lo + 1

\* Mutant of shows_current_job: the test for None is left out.
shows_current_job_unless_idle(state) == state # "idle"

\* Whether _handle_energy_request adds "current_job" to an entry.
shows_current_job(state) == state # None /\ state # "idle"

\* One entry of the response: the total's or a meter's.
entry(power, consumption, current_job, state) ==
    [power |-> Round2(power),
     consumption |->
        IF shows_current_job(state)
        THEN [total |-> Round2(consumption),
              current_job |-> Round2(current_job)]
        ELSE [total |-> Round2(consumption)]]

\* EnergyManager._handle_energy_request: the "total" entry is stored
\* first, then one entry per meter under the meter's name (a meter named
\* "total" replaces the total entry).
handle_energy_request(ms, state) ==
    [n \in DOMAIN ms |->
        entry(get_power(ms[n]), get_consumption(ms[n]),
              get_consumption_current_job(ms[n]), state)]
    @@ (<<"total">> :>
        entry(get_total_power(ms), get_total_consumption(ms),
              get_total_consumption_current_job(ms), state))

\* The five job_state handlers: the state each one stores.
on_job_started == "printing"
on_job_complete == "complete"
on_job_cancelled_idle == "idle"    \* mutant of on_job_cancelled
on_job_cancelled == "complete"
on_job_error == "complete"
on_job_standby == "idle"

\* -------------------------------------------------------------- inputs

\* The values a consumption field delivers: a negative one, zero, and
\* the positive ones up to the bound.
Readings == -1 .. MaxReading

\* The values a power field delivers: 0.125 and 0.375.
PowerReadings == {1, 3}

Sensors == {<<"s1">>, <<"s2">>}

\* The fields a sensor may carry in a payload: s1 reports power and
\* energy, s2 power alone.
SensorFields(sensor) ==
    IF sensor = <<"s1">> THEN {<<"power">>, <<"energy">>}
    ELSE {<<"power">>}

\* The values a field of a sensor delivers (s2 reports 0.375 only).
FieldReadings(sensor, field) ==
    IF field = <<"energy">> THEN Readings
    ELSE IF sensor = <<"s1">> THEN PowerReadings
    ELSE {3}

\* The entries of one sensor in a payload: any subset of its fields,
\* each with a reading.
FieldMaps(sensor) ==
    UNION { { f \in [F -> Readings \cup PowerReadings] :
                \A x \in F : f[x] \in FieldReadings(sensor, x) } :
            F \in SUBSET SensorFields(sensor) }

\* The payloads of sensors:sensor_update: any subset of the sensors.
Payloads ==
    UNION { { p \in [S -> UNION {FieldMaps(x) : x \in S}] :
                \A x \in S : p[x] \in FieldMaps(x) } :
            S \in SUBSET Sensors }

\* Configuration sections.  psu and bed read the same consumption
\* counter and different power fields.
psu == [section |-> <<"energymeter", " ", "psu">>,
        power_sensor |-> <<"s1", ".", "power">>,
        consumption_sensor |-> <<"s1", ".", "energy">>]
bed == [section |-> <<"energymeter", " ", "bed">>,
        power_sensor |-> <<"s2", ".", "power">>,
        consumption_sensor |-> <<"s1", ".", "energy">>]
\* a second section whose meter is named psu as well
psu_again == [section |-> <<"energymeter2", " ", "psu">>,
              power_sensor |-> <<"s2", ".", "power">>,
              consumption_sensor |-> <<"s1", ".", "energy">>]
\* a meter named like the total's entry of the response, reading the
\* same fields as psu
total == [section |-> <<"energymeter", " ", "total">>,
         power_sensor |-> <<"s1", ".", "power">>,
         consumption_sensor |-> <<"s1", ".", "energy">>]
no_power_dot == [section |-> <<"energymeter", " ", "aux">>,
                 power_sensor |-> <<"nodot">>,
                 consumption_sensor |-> <<"s1", ".", "energy">>]
no_consumption_dot == [section |-> <<"energymeter", " ", "fan">>,
                       power_sensor |-> <<"s1", ".", "power">>,
                       consumption_sensor |-> <<"nodot">>]

\* The configurations explored: no meter (no section, or a malformed
\* one only), one meter, a name used twice, two meters with a malformed
\* section before and between them, and a meter named "total".
Configs ==
    { <<>>,
      <<no_consumption_dot>>,
      <<psu>>,
      <<psu, psu_again>>,
      <<no_power_dot, psu, no_consumption_dot, bed>>,
      <<psu, total>> }

\* ------------------------------------------------------------- history

NoResult == [none |-> TRUE]

\* There is no second run.
NoTwin == [none |-> TRUE]

\* What a payload delivers for a sensor link: <<v>>, or <<>> if the
\* payload lacks the sensor or the sensor's entry lacks the field.
delivered(link, sensor_data) ==
    IF link.sensor \in DOMAIN sensor_data
       /\ link.field \in DOMAIN sensor_data[link.sensor]
    THEN <<sensor_data[link.sensor][link.field]>>
    ELSE <<>>

\* Nothing delivered.
Nothing == [power |-> <<>>, counter |-> <<>>]

\* Nothing delivered yet.
Unobserved ==
    [now |-> Nothing, power |-> <<>>, first |-> <<>>, last |-> <<>>,
     reset |-> FALSE]

\* The history of one meter after a payload: what this payload delivered
\* for the meter's two links (now), the power delivered last, the
\* counter value delivered last, whether some counter value was lower
\* than the one delivered before it (reset), and the counter value
\* delivered first, kept for as long as there was no reset.
observe(obs, self, sensor_data) ==
    LET p == delivered(self.power_sensor, sensor_data)
        c == delivered(self.consumption_sensor, sensor_data)
        reset == obs.reset
                 \/ (c # <<>> /\ obs.last # <<>> /\ c[1] < obs.last[1])
    IN  [now   |-> [power |-> p, counter |-> c],
         power |-> IF p # <<>> THEN p ELSE obs.power,
         first |-> IF reset THEN <<>>
                   ELSE IF c # <<>> /\ obs.first = <<>> THEN c
                   ELSE obs.first,
         last  |-> IF c # <<>> THEN c ELSE obs.last,
         reset |-> reset]

\* ---------------------------------------------------------- the system

\* The state after EnergyManager.__init__; second tells whether a second
\* manager is constructed from the same configuration.
InitManager(second) ==
    /\ config \in Configs
    /\ meters = EnergyManager(config).meters
    /\ warnings = EnergyManager(config).warnings
    /\ job_state = None
    /\ result = NoResult
    /\ job_event = None
    /\ observed = [n \in DOMAIN meters |-> Unobserved]
    /\ twin = IF second
              THEN [job_state |-> None, meters |-> EnergyManager(config).meters]
              ELSE NoTwin

Init == InitManager(FALSE)

\* Whether every accumulator of the meters is within the bound.
within_bound(ms) ==
    \A n \in DOMAIN ms :
        /\ ms[n].consumption \in -MaxConsumption .. MaxConsumption
        /\ ms[n].consumption_current_job \in -MaxConsumption .. MaxConsumption

\* Mutant of send_event: one meter's handler has run, the others' have
\* not, as an event dispatched one handler at a time would appear.
send_event_to_one(ms, sensor_data, state) ==
    [n \in DOMAIN ms |->
        IF n = (CHOOSE x \in DOMAIN ms : TRUE)
        THEN handle_sensor_update(ms[n], sensor_data, state)
        ELSE ms[n]]

\* The host's dispatch of sensors:sensor_update to the handlers the
\* meters registered: the handler of every meter runs, one after the
\* other, with no request or job_state event handled in between.
send_event(ms, sensor_data, state) ==
    [n \in DOMAIN ms |-> handle_sensor_update(ms[n], sensor_data, state)]

\* sensors:sensor_update with payload sensor_data in the second run.
twin_sensor_update(sensor_data) ==
    IF twin = NoTwin THEN twin' = twin
    ELSE LET updated == send_event(twin.meters, sensor_data, twin.job_state)
         IN  /\ within_bound(updated)
             /\ twin' = [twin EXCEPT !.meters = updated]

\* A job_state event in the second run; state is what its handler
\* assigns to job_state.
twin_on_job(state) ==
    twin' = IF twin = NoTwin THEN twin ELSE [twin EXCEPT !.job_state = state]

\* sensors:sensor_update with payload sensor_data, delivered to this run
\* and to the second one.
sensor_update(sensor_data) ==
    LET updated == send_event(meters, sensor_data, job_state)
    IN  /\ within_bound(updated)
        /\ meters' = updated
        /\ twin_sensor_update(sensor_data)
        /\ result' = NoResult
        /\ observed' = [n \in DOMAIN meters |->
                           observe(observed[n], meters[n], sensor_data)]
        /\ UNCHANGED <<config, warnings, job_state, job_event>>

\* What handling a job_state event changes besides job_state: the
\* history of the event, and a response sent earlier is out of date.
job_handled(name) ==
    /\ result' = NoResult
    /\ job_event' = name
    /\ observed' = [n \in DOMAIN meters |->
                       [observed[n] EXCEPT !.now = Nothing]]
    /\ UNCHANGED <<config, meters, warnings>>

\* Mutant of job_started: a starting job sets every meter's
\* consumption_current_job back to 0.
job_started_resetting_current_job ==
    /\ job_state' = on_job_started
    /\ twin_on_job(on_job_started)
    /\ result' = NoResult
    /\ job_event' = "job_state:started"
    /\ observed' = [n \in DOMAIN meters |->
                       [observed[n] EXCEPT !.now = Nothing]]
    /\ meters' = [n \in DOMAIN meters |->
                     [meters[n] EXCEPT !.consumption_current_job = 0]]
    /\ UNCHANGED <<config, warnings>>

\* job_state:started
job_started ==
    /\ job_state' = on_job_started
    /\ twin_on_job(on_job_started)
    /\ job_handled("job_state:started")

job_complete ==
    /\ job_state' = on_job_complete
    /\ twin_on_job(on_job_complete)
    /\ job_handled("job_state:complete")

job_cancelled ==
    /\ job_state' = on_job_cancelled
    /\ twin_on_job(on_job_cancelled)
    /\ job_handled("job_state:cancelled")

job_error ==
    /\ job_state' = on_job_error
    /\ twin_on_job(on_job_error)
    /\ job_handled("job_state:error")

job_standby ==
    /\ job_state' = on_job_standby
    /\ twin_on_job(on_job_standby)
    /\ job_handled("job_state:standby")

\* Mutant of energy_request: a request that reports a complete job
\* clears the current-job consumption it has reported.
energy_request_clearing_complete_job ==
    /\ result' = handle_energy_request(meters, job_state)
    /\ meters' = [n \in DOMAIN meters |->
                     [meters[n] EXCEPT !.consumption_current_job =
                         IF job_state = "complete" THEN 0 ELSE @]]
    /\ UNCHANGED <<config, warnings, job_state, job_event, observed, twin>>

\* GET /server/energy
energy_request ==
    /\ result' = handle_energy_request(meters, job_state)
    /\ UNCHANGED <<config, meters, warnings, job_state, job_event,
                   observed, twin>>

SensorUpdate == \E sensor_data \in Payloads : sensor_update(sensor_data)

Next ==
    \/ SensorUpdate
    \/ job_started
    \/ job_complete
    \/ job_cancelled
    \/ job_error
    \/ job_standby
    \/ energy_request

Spec == Init /\ [][Next]_vars

\* Sensor updates whose counter values are all non-negative.
NonNegativePayloads ==
    { p \in Payloads :
        \A x \in DOMAIN p :
            <<"energy">> \in DOMAIN p[x] => p[x][<<"energy">>] >= 0 }

SensorUpdateNonNegative ==
    \E sensor_data \in NonNegativePayloads : sensor_update(sensor_data)

NextNonNegative ==
    \/ SensorUpdateNonNegative
    \/ job_started
    \/ job_complete
    \/ job_cancelled
    \/ job_error
    \/ job_standby
    \/ energy_request

\* The system when no sensor delivers a negative counter value.
SpecNonNegative == Init /\ [][NextNonNegative]_vars

\* A job_state event that the second run alone receives.
twin_job_event ==
    /\ \E state \in {on_job_started, on_job_complete, on_job_cancelled,
                      on_job_error, on_job_standby} :
          twin_on_job(state)
    /\ UNCHANGED <<config, meters, warnings, job_state, result, job_event,
                   observed>>

InitTwin == InitManager(TRUE) /\ config = <<psu>>

NextTwin ==
    \/ SensorUpdate
    \/ job_started
    \/ job_complete
    \/ job_cancelled
    \/ job_error
    \/ job_standby
    \/ twin_job_event

\* Two runs of one meter that receive the same sensor updates and
\* different job_state events.
SpecTwin == InitTwin /\ [][NextTwin]_vars

\* -------------------------------------------------- reading a step

\* The step handled a sensor update whose payload delivered a counter
\* value to meter n (a job_state event clears "now", a request leaves a
\* response).
counter_delivered(n) ==
    /\ result' = NoResult
    /\ observed'[n].now.counter # <<>>

\* The step handled a request.
request_handled == result' # NoResult /\ result = NoResult

\* The delta section 4.2 of the specification prescribes for a counter
\* value, given the counter value delivered before it (<<>> if none).
expected_delta(before, value) ==
    IF before = <<>> THEN 0
    ELSE IF value >= before[1] THEN value - before[1]
    ELSE value

\* -------------------------------------------------------------- claims

\* C1 as stated: in every step, every meter's lifetime consumption
\* (EnergyMeter.consumption) is at least what it was before the step.
C1_consumption_never_decreases ==
    [][\A n \in DOMAIN meters :
          meters'[n].consumption >= meters[n].consumption]_vars

\* C1: in every step that does not deliver a negative counter value to a
\* meter, the meter's lifetime consumption is at least what it was; this
\* covers a delivered value lower than the one seen before.
C1_consumption_never_decreases_nonnegative ==
    [][\A n \in DOMAIN meters :
          (counter_delivered(n) => observed'[n].now.counter[1] >= 0)
          => meters'[n].consumption >= meters[n].consumption]_vars

\* A counter went down to a non-negative value and the lifetime
\* consumption took the new value as its increase.
C1_witness ==
    \E n \in DOMAIN meters :
        /\ observed[n].reset
        /\ observed[n].now.counter = <<1>>
        /\ meters[n].consumption_last = <<1>>
        /\ meters[n].consumption = 1
        /\ result = NoResult

\* C2 as stated: every entry of a response has the current_job field
\* if and only if the job state is not idle; the initial state, in
\* which no job_state event was handled, counts as not idle.
C2_current_job_iff_not_idle ==
    result # NoResult =>
        \A k \in DOMAIN result :
            ("current_job" \in DOMAIN result[k].consumption)
                <=> (job_state # "idle")

\* C2: every entry of a response (the total's and each meter's) has the
\* current_job field if and only if the job state is printing or
\* complete; it is absent in the initial state and after a standby.
C2_current_job_iff_printing_or_complete ==
    result # NoResult =>
        /\ <<"total">> \in DOMAIN result
        /\ DOMAIN meters \subseteq DOMAIN result
        /\ \A k \in DOMAIN result :
            ("current_job" \in DOMAIN result[k].consumption)
                <=> (job_state \in {"printing", "complete"})

\* A response sent before any job_state event, with a meter's entry in
\* it and no current_job field.
C2_witness ==
    /\ result # NoResult
    /\ job_event = None
    /\ job_state = None
    /\ \E n \in DOMAIN meters :
          "current_job" \notin DOMAIN result[n].consumption

\* C3: a meter's current-job consumption changes only in a step that
\* delivers a counter value to it while the job state is printing; a
\* counter value delivered in any other job state leaves it unchanged
\* and still adds the prescribed delta to the lifetime consumption.
C3_current_job_only_while_printing ==
    [][\A n \in DOMAIN meters :
          /\ meters'[n].consumption_current_job
                 # meters[n].consumption_current_job
             => (job_state = "printing" /\ counter_delivered(n))
          /\ (counter_delivered(n) /\ job_state # "printing")
             => /\ meters'[n].consumption_current_job
                       = meters[n].consumption_current_job
                /\ meters'[n].consumption
                       = meters[n].consumption
                         + expected_delta(observed[n].last,
                                          observed'[n].now.counter[1])]_vars

\* After a job completed, a counter value was delivered, the lifetime
\* consumption is positive and the current-job consumption is still 0.
C3_witness ==
    \E n \in DOMAIN meters :
        /\ job_state = "complete"
        /\ result = NoResult
        /\ observed[n].now.counter = <<2>>
        /\ observed[n].first = <<0>>
        /\ meters[n].consumption = 2
        /\ meters[n].consumption_current_job = 0

\* C4: for every meter, while no delivered counter value was lower than
\* the one before it, the lifetime consumption equals the value
\* delivered last minus the value delivered first, whatever job_state
\* events came in between.
C4_consumption_is_last_minus_first ==
    \A n \in DOMAIN meters :
        observed[n].first # <<>> =>
            meters[n].consumption
                = observed[n].last[1] - observed[n].first[1]

\* Counter values 0, 1, 2 were delivered with a job_state event between
\* the two increases: one of them counted for the job, the other not.
C4_witness ==
    \E n \in DOMAIN meters :
        /\ observed[n].first = <<0>>
        /\ observed[n].last = <<2>>
        /\ meters[n].consumption = 2
        /\ meters[n].consumption_current_job = 1
        /\ job_event # None

\* C5: when a counter value lower than the meter's consumption_last is
\* delivered, the lifetime consumption grows by the delivered value
\* itself, whatever consumption_last was.
C5_reset_adds_the_new_value ==
    [][\A n \in DOMAIN meters :
          (/\ counter_delivered(n)
           /\ meters[n].consumption_last # <<>>
           /\ observed'[n].now.counter[1] < meters[n].consumption_last[1])
          => meters'[n].consumption
                 = meters[n].consumption + observed'[n].now.counter[1]]_vars

\* A counter went from 1 to 2 and then delivered 1: the lifetime
\* consumption, 1 before, is 2.
C5_witness ==
    \E n \in DOMAIN meters :
        /\ observed[n].reset
        /\ observed[n].now.counter = <<1>>
        /\ meters[n].consumption_last = <<1>>
        /\ meters[n].consumption = 2
        /\ meters[n].consumption_current_job = 2
        /\ result = NoResult

\* The job state the table of section 4.3 gives for the job_state event
\* handled last.
phase_after(name) ==
    CASE name = None -> None
      [] name = "job_state:started" -> "printing"
      [] name = "job_state:complete" -> "complete"
      [] name = "job_state:cancelled" -> "complete"
      [] name = "job_state:error" -> "complete"
      [] name = "job_state:standby" -> "idle"

\* C6: the job state is None until the first job_state event, and after
\* that it is the state the table gives for the event handled last,
\* whatever the state was before; so it is idle only after a standby and
\* never None once an event was handled.
C6_job_state_follows_last_event ==
    /\ job_state = phase_after(job_event)
    /\ job_state = "idle" => job_event = "job_state:standby"
    /\ job_event # None => job_state # None

\* A job was cancelled after meters had counted for it: the state is
\* complete.
C6_witness ==
    /\ job_event = "job_state:cancelled"
    /\ job_state = "complete"
    /\ \E n \in DOMAIN meters : meters[n].consumption_current_job > 0

\* C7 as stated, its numbers taken as the response gives them (rounded
\* to two decimals): the power, total and current_job of the response's
\* "total" entry are the sums over the registered meters.
C7_totals_are_sums ==
    result # NoResult =>
        LET t == result[<<"total">>] IN
        /\ t.power = Round2(sum([n \in DOMAIN meters |-> meters[n].power]))
        /\ t.consumption.total
               = Round2(sum([n \in DOMAIN meters |->
                                meters[n].consumption]))
        /\ "current_job" \in DOMAIN t.consumption =>
               t.consumption.current_job
                   = Round2(sum([n \in DOMAIN meters |->
                                    meters[n].consumption_current_job]))

\* C8: a sensor update whose payload has both the power and the counter
\* value of a meter leaves the meter with both applied, and a response
\* sent after such an update reports the delivered power together with
\* the consumption that includes the update's delta.
C8_no_half_applied_update ==
    [][\A n \in DOMAIN meters :
          /\ (counter_delivered(n) /\ observed'[n].now.power # <<>>)
             => /\ meters'[n].power = observed'[n].now.power[1]
                /\ meters'[n].consumption_last = observed'[n].now.counter
                /\ meters'[n].consumption
                       = meters[n].consumption
                         + expected_delta(observed[n].last,
                                          observed'[n].now.counter[1])
          /\ (/\ request_handled
              /\ observed[n].now.power # <<>>
              /\ observed[n].now.counter # <<>>)
             => /\ result'[n].power = Round2(observed[n].now.power[1])
                /\ result'[n].consumption.total
                       = Round2(meters[n].consumption)
                /\ meters[n].consumption_last = observed[n].now.counter
                /\ meters' = meters]_vars

\* A response sent right after a payload with both fields of a meter:
\* it reports the new power, 0.38, and a consumption of 0.25.
C8_witness ==
    /\ result # NoResult
    /\ \E n \in DOMAIN meters :
          /\ observed[n].now.power = <<3>>
          /\ observed[n].now.counter = <<2>>
          /\ result[n].power = 38
          /\ result[n].consumption.total = 25

\* Whether a sensor reference has a ".".
has_dot(sensor_path) ==
    \E i \in 1 .. Len(sensor_path) : sensor_path[i] = "."

\* Whether both sensor references of a section have a ".".
well_formed(cfg) ==
    has_dot(cfg.power_sensor) /\ has_dot(cfg.consumption_sensor)

\* The meter name a section declares (every section explored is named
\* "<prefix> <name>").
declared_name(cfg) == SubSeq(cfg.section, 3, Len(cfg.section))

\* The sensor and field a well-formed reference "<sensor>.<field>" names.
named_by(sensor_path) ==
    [sensor |-> SubSeq(sensor_path, 1, 1),
     field |-> SubSeq(sensor_path, 3, Len(sensor_path))]

\* C9: a section with a sensor reference without "." is reported and
\* registers nothing: unless a well-formed section declares the same
\* name, its name is neither in the registry nor in a response.  Every
\* well-formed section, before or after it, has a meter registered
\* under its name; each registered meter reads the sensors of the last
\* well-formed section of its name and follows what they deliver.
C9_malformed_meter_is_skipped ==
    LET sections == 1 .. Len(config)
        good == {i \in sections : well_formed(config[i])}
        bad == sections \ good
        good_names == {declared_name(config[i]) : i \in good}
    IN  /\ DOMAIN meters = good_names
        /\ \A i \in bad :
              declared_name(config[i]) \notin good_names =>
                  /\ declared_name(config[i]) \notin DOMAIN meters
                  /\ result # NoResult =>
                         declared_name(config[i]) \notin DOMAIN result
        /\ LET skipped == SelectSeq(config, LAMBDA c : ~well_formed(c))
           IN  warnings = [j \in 1 .. Len(skipped) |-> skipped[j].section]
        /\ result # NoResult =>
               DOMAIN result = good_names \cup {<<"total">>}
        /\ \A n \in DOMAIN meters :
              \E i \in good :
                  /\ declared_name(config[i]) = n
                  /\ \A k \in good :
                        declared_name(config[k]) = n => k <= i
                  /\ meters[n].power_sensor
                         = named_by(config[i].power_sensor)
                  /\ meters[n].consumption_sensor
                         = named_by(config[i].consumption_sensor)
                  /\ meters[n].consumption_last = observed[n].last

\* With malformed sections before and between them, psu and bed are in
\* a response, and bed has counted consumption.
C9_witness ==
    /\ config = <<no_power_dot, psu, no_consumption_dot, bed>>
    /\ Len(warnings) = 2
    /\ result # NoResult
    /\ DOMAIN result = {<<"total">>, <<"psu">>, <<"bed">>}
    /\ meters[<<"bed">>].consumption > 0
    /\ result[<<"bed">>].power = 38

\* C10: a meter's power is the value of the power field delivered last
\* for its power sensor, and 0 if none was delivered; updates without
\* that field and job_state events leave it as it is.
C10_power_is_last_delivered ==
    \A n \in DOMAIN meters :
        meters[n].power =
            IF observed[n].power = <<>> THEN 0 ELSE observed[n].power[1]

\* The power delivered last was 0.125; counter values and a job_state
\* event followed: the power is 0.125.
C10_witness ==
    \E n \in DOMAIN meters :
        /\ observed[n].power = <<1>>
        /\ observed[n].now = Nothing
        /\ observed[n].last # <<>>
        /\ job_event # None
        /\ meters[n].power = 1

\* C11: when a counter value is delivered to a meter whose
\* consumption_last is absent, its lifetime and current-job consumption
\* stay as they are, in every job state and for every value, and
\* consumption_last becomes the delivered value; the value delivered
\* next is measured against it.
C11_first_value_adds_nothing ==
    [][\A n \in DOMAIN meters :
          /\ (counter_delivered(n) /\ meters[n].consumption_last = <<>>)
             => /\ meters'[n].consumption = meters[n].consumption
                /\ meters'[n].consumption_current_job
                       = meters[n].consumption_current_job
                /\ meters'[n].consumption_last = observed'[n].now.counter
          /\ (counter_delivered(n) /\ observed[n].first # <<>>
                  /\ observed[n].first = observed[n].last)
             => meters'[n].consumption
                    = meters[n].consumption
                      + expected_delta(observed[n].first,
                                       observed'[n].now.counter[1])]_vars

\* While a job prints, a meter has observed its first counter value,
\* 0.25: nothing is counted and 0.25 is the value to measure against.
C11_witness ==
    \E n \in DOMAIN meters :
        /\ job_state = "printing"
        /\ result = NoResult
        /\ observed[n].now.counter = <<2>>
        /\ observed[n].first = <<2>>
        /\ observed[n].last = <<2>>
        /\ meters[n].consumption_last = <<2>>
        /\ meters[n].consumption = 0
        /\ meters[n].consumption_current_job = 0

\* C12: every meter's consumption_last is the counter value delivered
\* to it last, and absent exactly when none was ever delivered; right
\* after an update that delivered a counter value it is that value, on
\* each of the three branches (first value, increase, reset).
C12_last_is_the_delivered_value ==
    \A n \in DOMAIN meters :
        /\ meters[n].consumption_last = observed[n].last
        /\ observed[n].now.counter # <<>>
           => meters[n].consumption_last = observed[n].now.counter

\* A counter delivered 0.25 and then 0.125: consumption_last is 0.125.
C12_witness ==
    \E n \in DOMAIN meters :
        /\ observed[n].reset
        /\ observed[n].now.counter = <<1>>
        /\ observed[n].last = <<1>>
        /\ meters[n].consumption_last = <<1>>
        /\ meters[n].consumption = 1
        /\ result # NoResult

\* C13: in a step that handles no request, a meter to which no power
\* value is delivered keeps its power, and a meter to which no counter
\* value is delivered keeps its lifetime consumption, its current-job
\* consumption and its consumption_last; a meter to which nothing is
\* delivered keeps all four.
C13_missing_source_changes_nothing ==
    [][\A n \in DOMAIN meters :
          result' = NoResult =>
              /\ observed'[n].now.power = <<>>
                 => meters'[n].power = meters[n].power
              /\ observed'[n].now.counter = <<>>
                 => /\ meters'[n].consumption = meters[n].consumption
                    /\ meters'[n].consumption_current_job
                           = meters[n].consumption_current_job
                    /\ meters'[n].consumption_last
                           = meters[n].consumption_last
              /\ observed'[n].now = Nothing
                 => meters'[n] = meters[n]]_vars

\* A meter with power 0.375 was delivered a counter value and no power:
\* its power is still 0.375.
C13_witness ==
    \E n \in DOMAIN meters :
        /\ result = NoResult
        /\ observed[n].now.power = <<>>
        /\ observed[n].now.counter = <<2>>
        /\ observed[n].first = <<1>>
        /\ observed[n].power = <<3>>
        /\ meters[n].power = 3
        /\ meters[n].consumption = 1

\* C14: a step that handles a job_state event (it records the event
\* and delivers nothing to any meter) leaves every meter as it is; a
\* starting job does not set consumption_current_job back.
C14_job_events_leave_meters ==
    [][(\/ job_event' # job_event
        \/ job_state' # job_state
        \/ /\ result' = NoResult
           /\ \A n \in DOMAIN meters : observed'[n].now = Nothing)
       => meters' = meters]_vars

\* A job has just started while a meter holds 0.125 counted for the
\* job before it: the meter still holds it.
C14_witness ==
    \E n \in DOMAIN meters :
        /\ job_event = "job_state:started"
        /\ job_state = "printing"
        /\ result = NoResult
        /\ observed[n].now = Nothing
        /\ observed[n].first = <<0>>
        /\ observed[n].last = <<1>>
        /\ meters[n].consumption = 1
        /\ meters[n].consumption_current_job = 1

\* C15: the job state changes only in a step that handles a job_state
\* event, and then to the state of that event; a step that delivers a
\* sensor value to a meter and a step that handles a request leave the
\* job state as it is, and a request leaves every meter as it is.
C15_only_job_events_change_job_state ==
    [][/\ job_state' # job_state
          => /\ result' = NoResult
             /\ \A n \in DOMAIN meters : observed'[n].now = Nothing
             /\ job_state' = phase_after(job_event')
             /\ meters' = meters
       /\ (\E n \in DOMAIN meters :
              result' = NoResult /\ observed'[n].now # Nothing)
          => job_state' = job_state
       /\ result' # NoResult
          => /\ job_state' = job_state
             /\ job_event' = job_event
             /\ meters' = meters]_vars

\* A request was handled after a job completed with consumption counted
\* for it: the job state is still complete and the meter still has it.
C15_witness ==
    \E n \in DOMAIN meters :
        /\ result # NoResult
        /\ job_state = "complete"
        /\ meters[n].consumption_current_job = 2
        /\ result[n].consumption.current_job = 25
        /\ observed[n].now.counter # <<>>

\* C16: when no negative counter value is delivered, every meter's
\* current-job consumption is at least 0 and at most its lifetime
\* consumption, and so is the total of the one against the total of the
\* other.
C16_current_job_within_lifetime ==
    /\ \A n \in DOMAIN meters :
          /\ 0 <= meters[n].consumption_current_job
          /\ meters[n].consumption_current_job <= meters[n].consumption
    /\ 0 <= get_total_consumption_current_job(meters)
    /\ get_total_consumption_current_job(meters)
           <= get_total_consumption(meters)

\* Two meters on one counter, which went 0, 0.125 while idle and then
\* reset to 0.125 while printing: each has 0.125 for the job out of 0.25.
C16_witness ==
    /\ DOMAIN meters = {<<"psu">>, <<"bed">>}
    /\ \A n \in DOMAIN meters :
          /\ observed[n].reset
          /\ meters[n].consumption_current_job = 1
          /\ meters[n].consumption = 2
    /\ get_total_consumption_current_job(meters) = 2
    /\ get_total_consumption(meters) = 4

\* C17: a step that delivers a sensor update stores the delivered
\* values in every meter it concerns, so a response never has one
\* meter with them and another without: every meter's entry in a
\* response shows the values delivered to it by the update handled
\* last, and the total entry is summed over those same meters.
C17_update_reaches_all_meters_at_once ==
    [][/\ \A n \in DOMAIN meters :
             /\ counter_delivered(n)
                => meters'[n].consumption_last = observed'[n].now.counter
             /\ (result' = NoResult /\ observed'[n].now.power # <<>>)
                => meters'[n].power = observed'[n].now.power[1]
       /\ request_handled
          => /\ \A n \in DOMAIN meters :
                   /\ observed[n].now.counter # <<>>
                      => meters[n].consumption_last = observed[n].now.counter
                   /\ observed[n].now.power # <<>>
                      => meters[n].power = observed[n].now.power[1]
                   /\ result'[n].power = Round2(meters[n].power)
                   /\ result'[n].consumption.total
                          = Round2(meters[n].consumption)
             /\ <<"total">> \notin DOMAIN meters
                => /\ result'[<<"total">>].power
                          = Round2(get_total_power(meters))
                   /\ result'[<<"total">>].consumption.total
                          = Round2(get_total_consumption(meters))]_vars

\* One update delivered 0.25 to the counter psu and bed share, after
\* 0: the response shows 0.25 for each and 0.5 in total.
C17_witness ==
    /\ result # NoResult
    /\ DOMAIN meters = {<<"psu">>, <<"bed">>}
    /\ \A n \in DOMAIN meters :
          /\ observed[n].first = <<0>>
          /\ observed[n].now.counter = <<2>>
          /\ meters[n].consumption_last = <<2>>
          /\ result[n].consumption.total = 25
    /\ result[<<"total">>].consumption.total = 50

\* C18: two runs that receive the same sensor updates and different
\* job_state events have the same power, lifetime consumption and
\* consumption_last in every meter.
C18_job_events_do_not_reach_lifetime ==
    \A n \in DOMAIN meters :
        /\ twin.meters[n].power = meters[n].power
        /\ twin.meters[n].consumption = meters[n].consumption
        /\ twin.meters[n].consumption_last = meters[n].consumption_last

\* One run printed while the other was idle: the current-job
\* consumption differs, the lifetime consumption is 0.25 in both.
C18_witness ==
    \E n \in DOMAIN meters :
        /\ job_state = "printing"
        /\ twin.job_state = "idle"
        /\ meters[n].consumption_current_job = 2
        /\ twin.meters[n].consumption_current_job = 0
        /\ meters[n].consumption = 2
        /\ twin.meters[n].consumption = 2
        /\ meters[n].power = 3

\* C19: a sensor update that delivers to every meter what the update
\* handled just before it delivered leaves every meter as it is, in
\* every job state.
C19_redelivery_changes_nothing ==
    [][(/\ result' = NoResult
        /\ job_event' = job_event
        /\ job_state' = job_state
        /\ \A n \in DOMAIN meters : observed'[n].now = observed[n].now)
       => meters' = meters]_vars

\* A meter that counted 0.25 for a printing job, just after an update
\* with power 0.375 and counter value 0.25; the same update again
\* arrives in this state.
C19_witness ==
    \E n \in DOMAIN meters :
        /\ job_state = "printing"
        /\ result = NoResult
        /\ observed[n].now = [power |-> <<3>>, counter |-> <<2>>]
        /\ observed[n].first = <<0>>
        /\ meters[n].consumption = 2
        /\ meters[n].consumption_current_job = 2
        /\ meters[n].consumption_last = <<2>>
        /\ meters[n].power = 3

====
